---- MODULE Spec2Model ----
(***************************************************************************)
(* Model of src/snps.py: the SNP entity (construction, detect_type,        *)
(* detect_mapped_reads, set_model, __hash__/__eq__/__ne__), the selection  *)
(* utility find_most_reads_snp, the VCF loader load_VCF and map_reads.     *)
(*                                                                         *)
(* Python strings are modelled as sequences of one-character strings, so   *)
(* that len(), `in`, startswith(), strip(), split() and int() are computed *)
(* as Python computes them.                                                *)
(***************************************************************************)
EXTENDS Integers, Sequences, FiniteSets, TLC

VARIABLES
    snps,        \* the caller's collection of SNP objects (a sequence of records)
    reads_data,  \* the caller's collection of read records
    best,        \* what find_most_reads_snp last returned (NoBest before any call)
    cmp,         \* what the last x == y / x != y / hash() evaluation returned
    vcf,         \* content of the file load_VCF is given: a sequence of lines
    available,   \* whether open(vcf_file, "r") succeeds
    pc,          \* position of load_VCF: "start", "loop", "returned", "raised"
    f,           \* the file handle: "unopened", "open", "closed"
    lineno,      \* number of lines the `for line in f` loop has consumed
    all_snps,    \* load_VCF's local list
    ret,         \* the value load_VCF returned (NoRet when it did not return)
    exc          \* the exception the last call raised to the caller (NoExc: none)

vars == <<snps, reads_data, best, cmp, vcf, available, pc, f, lineno, all_snps, ret, exc>>

objVars == <<snps, reads_data, best, cmp>>
loadVars == <<vcf, available, pc, f, lineno, all_snps, ret, exc>>

None == "None"
NoExc == [type |-> None, context |-> None]
NoRet == [returned |-> FALSE, value |-> <<>>]

(***************************************************************************)
(* Bounds of the model.                                                    *)
(***************************************************************************)
MaxAlleleLen == 2
MaxLines == 2
MaxSnps == 2
MaxReads == 2
MaxMapped == 4
MaxSelLen == 3
MaxCount == 2

(***************************************************************************)
(* Python string operations.                                               *)
(***************************************************************************)
TAB == "\t"
NL == "\n"
Whitespace == {" ", TAB, NL, "\r"}
Digits == <<"0", "1", "2", "3", "4", "5", "6", "7", "8", "9">>
DigitSet == {Digits[i] : i \in 1..Len(Digits)}

\* x in s, for strings x and s: x occurs as a substring of s
StrIn(x, s) == \E i \in 0..(Len(s) - Len(x)) : SubSeq(s, i + 1, i + Len(x)) = x

\* s.startswith(p)
StartsWith(s, p) == Len(s) >= Len(p) /\ SubSeq(s, 1, Len(p)) = p

RECURSIVE LStrip(_)
LStrip(s) == IF s # <<>> /\ Head(s) \in Whitespace THEN LStrip(Tail(s)) ELSE s

RECURSIVE RStrip(_)
RStrip(s) ==
    IF s # <<>> /\ s[Len(s)] \in Whitespace THEN RStrip(SubSeq(s, 1, Len(s) - 1)) ELSE s

\* s.strip()
Strip(s) == RStrip(LStrip(s))

\* s.split(sep) for a one-character sep: always at least one field
RECURSIVE SplitFrom(_, _, _, _)
SplitFrom(s, sep, cur, acc) ==
    IF s = <<>> THEN Append(acc, cur)
    ELSE IF Head(s) = sep THEN SplitFrom(Tail(s), sep, <<>>, Append(acc, cur))
    ELSE SplitFrom(Tail(s), sep, Append(cur, Head(s)), acc)

Split(s, sep) == SplitFrom(s, sep, <<>>, <<>>)

DigitVal(c) == (CHOOSE i \in 1..Len(Digits) : Digits[i] = c) - 1

RECURSIVE DigitsVal(_, _)
DigitsVal(s, acc) ==
    IF s = <<>> THEN acc
    ELSE IF Head(s) = "_" THEN DigitsVal(Tail(s), acc)
    ELSE DigitsVal(Tail(s), 10 * acc + DigitVal(Head(s)))

\* the digit part of an int() literal: digits, single underscores between them
IsDigitBody(s) ==
    /\ s # <<>>
    /\ \A i \in 1..Len(s) : s[i] \in DigitSet \cup {"_"}
    /\ s[1] \in DigitSet /\ s[Len(s)] \in DigitSet
    /\ \A i \in 1..(Len(s) - 1) : ~(s[i] = "_" /\ s[i + 1] = "_")

Unsigned(s) == IF s # <<>> /\ Head(s) \in {"+", "-"} THEN Tail(s) ELSE s

\* int(s) succeeds (otherwise it raises ValueError)
IntCoercible(s) == IsDigitBody(Unsigned(Strip(s)))

\* the value of int(s)
ToInt(s) ==
    LET t == Strip(s)
        v == DigitsVal(Unsigned(t), 0)
    IN  IF t # <<>> /\ Head(t) = "-" THEN 0 - v ELSE v

(***************************************************************************)
(* SNP: classification and construction.                                   *)
(***************************************************************************)
TRANSITIONS == << <<"A", "G">>, <<"C", "T">> >>
TRANSVERSIONS == << <<"A", "C">>, <<"A", "T">>, <<"C", "G">>, <<"G", "T">> >>

\* slip: an else branch that clears the type, so only the last pair-string decides
RECURSIVE ScanTransversionsLastOnly(_, _, _, _)
ScanTransversionsLastOnly(ref, alt, k, type) ==
    IF k > Len(TRANSVERSIONS) THEN type
    ELSE LET conbo == TRANSVERSIONS[k]
         IN  IF ref # alt /\ StrIn(ref, conbo) /\ StrIn(alt, conbo)
             THEN ScanTransversionsLastOnly(ref, alt, k + 1, "transversion")
             ELSE ScanTransversionsLastOnly(ref, alt, k + 1, "")

\* the for loop over TRANSVERSIONS: no break, the last assignment stands
RECURSIVE ScanTransversions(_, _, _, _)
ScanTransversions(ref, alt, k, type) ==
    IF k > Len(TRANSVERSIONS) THEN type
    ELSE LET conbo == TRANSVERSIONS[k]
         IN  IF ref # alt /\ StrIn(ref, conbo) /\ StrIn(alt, conbo)
             THEN ScanTransversions(ref, alt, k + 1, "transversion")
             ELSE ScanTransversions(ref, alt, k + 1, type)

\* the value detect_type leaves in self.type, which is "" when it is called
detect_type(ref, alt) ==
    IF Len(ref) > 1 \/ Len(alt) > 1 THEN "indel"
    ELSE IF \/ StrIn(ref, TRANSITIONS[1]) /\ StrIn(alt, TRANSITIONS[1])
            \/ StrIn(ref, TRANSITIONS[2]) /\ StrIn(alt, TRANSITIONS[2])
    THEN "transition"
    ELSE ScanTransversions(ref, alt, 1, "")

\* SNP.__init__ when int(pos) succeeds
SNP(chr, id, pos, ref, alt, gt) ==
    [chrom |-> chr, id |-> id, pos |-> ToInt(pos), ref |-> ref, alt |-> alt,
     mut |-> ref \o alt, gt |-> gt, type |-> detect_type(ref, alt),
     reads |-> <<>>, bases |-> <<>>, model_llkh |-> <<0, 0>>, model |-> None]

(***************************************************************************)
(* Read records (external collaborator) and mapped-read detection.         *)
(***************************************************************************)
\* read.get_base(pos): the base the read shows at absolute position pos
GetBase(read, pos) == read.seq[pos - read.start + 1]

\* slip: the start of the interval taken as exclusive
RECURSIVE MappedLoopStartExclusive(_, _, _)
MappedLoopStartExclusive(self, rd, k) ==
    IF k > Len(rd) THEN self
    ELSE LET read == rd[k]
         IN  IF self.chrom = read.chr /\ read.start < self.pos /\ self.pos <= read.end
             THEN MappedLoopStartExclusive(
                      [self EXCEPT !.reads = Append(@, read),
                                   !.bases = Append(@, GetBase(read, self.pos))],
                      rd, k + 1)
             ELSE MappedLoopStartExclusive(self, rd, k + 1)

\* slip: the base is put at the front of bases while the read goes to the end
RECURSIVE MappedLoopBaseInFront(_, _, _)
MappedLoopBaseInFront(self, rd, k) ==
    IF k > Len(rd) THEN self
    ELSE LET read == rd[k]
         IN  IF self.chrom = read.chr /\ read.start <= self.pos /\ self.pos <= read.end
             THEN MappedLoopBaseInFront(
                      [self EXCEPT !.reads = Append(@, read),
                                   !.bases = <<GetBase(read, self.pos)>> \o @],
                      rd, k + 1)
             ELSE MappedLoopBaseInFront(self, rd, k + 1)

\* the for loop of detect_mapped_reads over reads_data[k..]
RECURSIVE MappedLoop(_, _, _)
MappedLoop(self, rd, k) ==
    IF k > Len(rd) THEN self
    ELSE LET read == rd[k]
         IN  IF self.chrom = read.chr /\ read.start <= self.pos /\ self.pos <= read.end
             THEN MappedLoop([self EXCEPT !.reads = Append(@, read),
                                          !.bases = Append(@, GetBase(read, self.pos))],
                             rd, k + 1)
             ELSE MappedLoop(self, rd, k + 1)

\* the SNP object after self.detect_mapped_reads(rd)
detect_mapped_reads(self, rd) == MappedLoop(self, rd, 1)

\* the SNP object after self.set_model(model)
set_model(self, model) == [self EXCEPT !.model = model]

\* the collection after map_reads(snps, reads)
map_reads(sl, reads) == [i \in 1..Len(sl) |-> detect_mapped_reads(sl[i], reads)]

(***************************************************************************)
(* Hashing and comparison.                                                 *)
(***************************************************************************)
CharCodes == <<"c", "h", "r", "1", "2", "A", "C", "G", "T">>
CharCode(c) == CHOOSE i \in 1..Len(CharCodes) : CharCodes[i] = c

RECURSIVE StrSum(_)
StrSum(s) == IF s = <<>> THEN 0 ELSE CharCode(Head(s)) + StrSum(Tail(s))

\* hash((a, b)) for a string a and an integer b: a deterministic function of
\* the two values and of nothing else, with collisions
TupleHash(a, b) == (StrSum(a) + b) % 8

\* slip: the reference allele hashed too
HashWithRef(self) == TupleHash(self.chrom \o self.ref, self.pos)

\* SNP.__hash__
Hash(self) == TupleHash(self.chrom, self.pos)

\* SNP.__eq__
Eq(self, other) ==
    self.chrom = other.chrom /\ self.pos = other.pos /\ self.mut = other.mut

\* SNP.__ne__
Ne(self, other) ==
    self.chrom # other.chrom \/ self.pos # other.pos \/ self.mut # other.mut

(***************************************************************************)
(* find_most_reads_snp.  A returned SNP is identified by its index in      *)
(* snp_list (object identity); index 0 stands for None.                    *)
(***************************************************************************)
\* slip: <= for <, so that a later SNP with as many reads replaces the earlier one
RECURSIVE MostReadsLoopLastWins(_, _, _, _)
MostReadsLoopLastWins(snp_list, k, max_reads_num, best_snp) ==
    IF k > Len(snp_list) THEN best_snp
    ELSE IF max_reads_num <= Len(snp_list[k].reads)
         THEN MostReadsLoopLastWins(snp_list, k + 1, Len(snp_list[k].reads), k)
         ELSE MostReadsLoopLastWins(snp_list, k + 1, max_reads_num, best_snp)

\* the for loop of find_most_reads_snp over snp_list[k..]
RECURSIVE MostReadsLoop(_, _, _, _)
MostReadsLoop(snp_list, k, max_reads_num, best_snp) ==
    IF k > Len(snp_list) THEN best_snp
    ELSE IF max_reads_num < Len(snp_list[k].reads)
         THEN MostReadsLoop(snp_list, k + 1, Len(snp_list[k].reads), k)
         ELSE MostReadsLoop(snp_list, k + 1, max_reads_num, best_snp)

find_most_reads_snp(snp_list) == MostReadsLoop(snp_list, 1, 0, 0)

(***************************************************************************)
(* load_VCF.                                                               *)
(***************************************************************************)
ChrPrefix == <<"c", "h", "r">>

\* line.strip().split("\t")
Fields(line) == Split(Strip(line), TAB)

\* slip: extra fields tolerated
UnpacksAtLeast10(fields) == Len(fields) >= 10

\* the 10-name tuple assignment succeeds (otherwise ValueError)
Unpacks10(fields) == Len(fields) = 10

\* slip: the indel filter left out
KeepsAll(snp) == TRUE

\* if not snp.type == "indel"
Keeps(snp) == ~(snp.type = "indel")

\* the body of the for loop for one line: what it does to all_snps, or the
\* ValueError it raises (context: the statement that raised it)
ProcessLine(line) ==
    IF ~StartsWith(line, ChrPrefix) THEN [kind |-> "skip"]
    ELSE LET fields == Fields(line)
         IN  IF ~Unpacks10(fields) THEN [kind |-> "ValueError", context |-> "unpack line"]
             ELSE LET gt == fields[10]
                      ab == Split(gt, "|")
                  IN  IF Len(ab) # 2 THEN [kind |-> "ValueError", context |-> "unpack gt"]
                      ELSE IF ab[1] = ab[2] THEN [kind |-> "skip"]
                      ELSE IF ~IntCoercible(fields[2])
                      THEN [kind |-> "ValueError", context |-> "int(pos)"]
                      ELSE LET snp == SNP(fields[1], fields[3], fields[2],
                                          fields[4], fields[5], gt)
                           IN  IF Keeps(snp)
                               THEN [kind |-> "append", snp |-> snp]
                               ELSE [kind |-> "skip"]

\* f = open(vcf_file, "r"); all_snps = []   (IOError is re-raised as IOError)
Open ==
    /\ pc = "start"
    /\ IF available
       THEN /\ f' = "open" /\ pc' = "loop" /\ exc' = exc
       ELSE /\ f' = f /\ pc' = "raised"
            /\ exc' = [type |-> "IOError", context |-> "open"]
    /\ all_snps' = <<>>
    /\ UNCHANGED <<vcf, available, lineno, ret>>
    /\ UNCHANGED objVars

\* one iteration of `for line in f`; a ValueError anywhere in the body is caught
\* by `except ValueError` and re-raised as RuntimeError, f.close() is not reached
Step ==
    /\ pc = "loop" /\ lineno < Len(vcf)
    /\ LET r == ProcessLine(vcf[lineno + 1])
       IN  /\ lineno' = lineno + 1
           /\ all_snps' = IF r.kind = "append" THEN Append(all_snps, r.snp) ELSE all_snps
           /\ IF r.kind = "ValueError"
              THEN /\ pc' = "raised"
                   /\ exc' = [type |-> "RuntimeError", context |-> r.context]
              ELSE /\ pc' = pc /\ exc' = exc
    /\ UNCHANGED <<vcf, available, f, ret>>
    /\ UNCHANGED objVars

\* the loop is exhausted: f.close(); return all_snps
Return ==
    /\ pc = "loop" /\ lineno = Len(vcf)
    /\ f' = "closed" /\ pc' = "returned"
    /\ ret' = [returned |-> TRUE, value |-> all_snps]
    /\ UNCHANGED <<vcf, available, lineno, all_snps, exc>>
    /\ UNCHANGED objVars

(***************************************************************************)
(* Operations on the caller's SNP collection.                              *)
(***************************************************************************)
NoCmp == [i |-> 0, j |-> 0, eq |-> FALSE, ne |-> FALSE, hi |-> 0, hj |-> 0]
NoBest == [called |-> FALSE, idx |-> 0]

\* snps.append(SNP(chr, id, pos, ref, alt, gt)); int(pos) may raise ValueError
New(chr, id, pos, ref, alt, gt) ==
    /\ IF IntCoercible(pos)
       THEN /\ snps' = Append(snps, SNP(chr, id, pos, ref, alt, gt))
            /\ exc' = NoExc
       ELSE /\ exc' = [type |-> "ValueError", context |-> "int(pos)"]
            /\ snps' = snps
    /\ UNCHANGED <<reads_data, best, cmp, vcf, available, pc, f, lineno, all_snps, ret>>

\* snps[i].detect_mapped_reads(reads_data)
DetectMappedReads(i) ==
    /\ i \in 1..Len(snps)
    /\ Len(detect_mapped_reads(snps[i], reads_data).reads) <= MaxMapped
    /\ snps' = [snps EXCEPT ![i] = detect_mapped_reads(snps[i], reads_data)]
    /\ UNCHANGED <<reads_data, best, cmp>>
    /\ UNCHANGED loadVars

\* map_reads(snps, reads_data)
MapReads ==
    /\ \A i \in 1..Len(snps) :
          Len(detect_mapped_reads(snps[i], reads_data).reads) <= MaxMapped
    /\ snps' = map_reads(snps, reads_data)
    /\ UNCHANGED <<reads_data, best, cmp>>
    /\ UNCHANGED loadVars

\* snps[i].set_model(model)
SetModel(i, model) ==
    /\ i \in 1..Len(snps)
    /\ snps' = [snps EXCEPT ![i] = set_model(snps[i], model)]
    /\ UNCHANGED <<reads_data, best, cmp>>
    /\ UNCHANGED loadVars

\* best = find_most_reads_snp(snps)
FindMostReads ==
    /\ best' = [called |-> TRUE, idx |-> find_most_reads_snp(snps)]
    /\ UNCHANGED <<snps, reads_data, cmp>>
    /\ UNCHANGED loadVars

\* snps[i] == snps[j], snps[i] != snps[j], hash(snps[i]), hash(snps[j])
Compare(i, j) ==
    /\ i \in 1..Len(snps) /\ j \in 1..Len(snps)
    /\ cmp' = [i |-> i, j |-> j, eq |-> Eq(snps[i], snps[j]), ne |-> Ne(snps[i], snps[j]),
               hi |-> Hash(snps[i]), hj |-> Hash(snps[j])]
    /\ UNCHANGED <<snps, reads_data, best>>
    /\ UNCHANGED loadVars

\* the loader at rest: no file, nothing opened
LoadIdle ==
    /\ vcf = <<>> /\ available = FALSE /\ pc = "start" /\ f = "unopened"
    /\ lineno = 0 /\ all_snps = <<>> /\ ret = NoRet /\ exc = NoExc

(***************************************************************************)
(* SpecType: construction of one SNP from every pair of alleles.           *)
(***************************************************************************)
Bases == {"A", "C", "G", "T"}
Alleles == UNION {[1..n -> Bases] : n \in 0..MaxAlleleLen}
Chr1 == <<"c", "h", "r", "1">>
Chr2 == <<"c", "h", "r", "2">>
Dot == <<".">>
Het == <<"1", "|", "0">>
Hom == <<"1", "|", "1">>

InitType ==
    /\ snps = <<>> /\ reads_data = <<>> /\ best = NoBest /\ cmp = NoCmp
    /\ LoadIdle

NextType ==
    \E ref \in Alleles, alt \in Alleles, pos \in {<<"7">>, <<"x">>} :
        /\ snps = <<>>
        /\ New(Chr1, Dot, pos, ref, alt, Het)

SpecType == InitType /\ [][NextType]_vars

\* C5: a newly constructed SNP whose ref and alt are distinct single characters of
\* {A,C,G,T} has type "transition" when {ref, alt} is {A,G} or {C,T} and type
\* "transversion" for every other pair, whichever allele is ref.
C5_TransitionTransversion ==
    \A i \in 1..Len(snps) :
        LET s == snps[i]
        IN  (Len(s.ref) = 1 /\ Len(s.alt) = 1 /\ s.ref # s.alt) =>
                s.type = (IF {s.ref[1], s.alt[1]} \in {{"A", "G"}, {"C", "T"}}
                          THEN "transition" ELSE "transversion")

C5_Witness ==
    \E i \in 1..Len(snps) :
        snps[i].ref = <<"T">> /\ snps[i].alt = <<"G">> /\ snps[i].type = "transversion"

\* C6: an SNP constructed with ref == alt == X, X a single character of {A,C,G,T},
\* has the empty-string type.
C6_SameAlleleEmptyType ==
    \A i \in 1..Len(snps) :
        (Len(snps[i].ref) = 1 /\ snps[i].ref = snps[i].alt) => snps[i].type = ""

(***************************************************************************)
(* SpecReads: SNPs are constructed, reads are mapped, models are set.      *)
(***************************************************************************)
ReadPool ==
    { [name |-> "r1", chr |-> Chr1, start |-> 1, end |-> 3, seq |-> <<"A", "C", "G">>],
      [name |-> "r2", chr |-> Chr1, start |-> 3, end |-> 5, seq |-> <<"T", "A", "C">>],
      [name |-> "r3", chr |-> Chr2, start |-> 6, end |-> 8, seq |-> <<"G", "A", "T">>] }

ReadArgs == { <<Chr1, <<"3">> >>, <<Chr1, <<"4">> >>, <<Chr2, <<"5">> >> }
Models == {"m1"}

InitReads ==
    /\ snps = <<>> /\ best = NoBest /\ cmp = NoCmp
    /\ reads_data \in UNION {[1..n -> ReadPool] : n \in 0..MaxReads}
    /\ LoadIdle

NextReads ==
    \/ \E a \in ReadArgs :
          /\ Len(snps) < MaxSnps
          /\ New(a[1], Dot, a[2], <<"A">>, <<"G">>, Het)
    \/ \E i \in 1..Len(snps) : DetectMappedReads(i)
    \/ MapReads
    \/ \E i \in 1..Len(snps), m \in Models : SetModel(i, m)

SpecReads == InitReads /\ [][NextReads]_vars

\* the reads of rd that cover the SNP s: same chromosome, start <= pos <= end
Covering(s, rd) ==
    SelectSeq(rd, LAMBDA r : r.chr = s.chrom /\ r.start <= s.pos /\ s.pos <= r.end)

\* C7: one call of detect_mapped_reads(reads_data) appends to the SNP's reads list
\* exactly the reads of reads_data on the SNP's chromosome whose [start, end]
\* contains pos, in the order of reads_data, after the entries already there.
C7_DetectAppendsCovering ==
    [][\A i \in 1..Len(snps) :
          DetectMappedReads(i) =>
              snps'[i].reads = snps[i].reads \o Covering(snps[i], reads_data)]_vars

\* two calls with the same reads_data: two covering reads, each in the list twice
C7_Witness ==
    \E i \in 1..Len(snps) :
        LET m == Covering(snps[i], reads_data)
        IN  Len(m) = 2 /\ m[1] # m[2] /\ snps[i].reads = m \o m

\* C10: reads and bases have the same length and bases[k] is what reads[k] shows
\* at pos; set_model changes the model label and nothing else of the SNP.
C10_Aligned ==
    \A i \in 1..Len(snps) :
        /\ Len(snps[i].reads) = Len(snps[i].bases)
        /\ \A k \in 1..Len(snps[i].reads) :
              snps[i].bases[k] = GetBase(snps[i].reads[k], snps[i].pos)

C10_SetModelOnlyModel ==
    \A i \in 1..Len(snps), m \in Models :
        SetModel(i, m) =>
            /\ snps'[i].model = m
            /\ snps'[i].reads = snps[i].reads /\ snps'[i].bases = snps[i].bases
            /\ snps'[i].model_llkh = snps[i].model_llkh /\ snps'[i].type = snps[i].type

C10_AlignedAndSetModel == [][C10_Aligned /\ C10_Aligned' /\ C10_SetModelOnlyModel]_vars

C10_Witness ==
    \E i \in 1..Len(snps) :
        /\ Len(snps[i].reads) = 4 /\ snps[i].model = "m1"
        /\ snps[i].bases = <<"G", "T", "G", "T">>

(***************************************************************************)
(* SpecSelect: find_most_reads_snp on collections of SNPs with mapped      *)
(* reads, each built by the constructor and one detect_mapped_reads call.  *)
(***************************************************************************)
SelRead == [name |-> "r1", chr |-> Chr1, start |-> 1, end |-> 3, seq |-> <<"A", "C", "G">>]

SelSNPs ==
    { detect_mapped_reads(SNP(Chr1, Dot, pos, <<"A">>, <<"G">>, Het), [k \in 1..n |-> SelRead]) :
        pos \in {<<"2">>, <<"3">>}, n \in 0..MaxCount }

InitSelect ==
    /\ snps \in UNION {[1..n -> SelSNPs] : n \in 0..MaxSelLen}
    /\ reads_data = <<>> /\ best = NoBest /\ cmp = NoCmp
    /\ LoadIdle

NextSelect == FindMostReads

SpecSelect == InitSelect /\ [][NextSelect]_vars

ReadCount(i) == Len(snps[i].reads)

\* C8: find_most_reads_snp returns None when the collection is empty or every SNP
\* has zero mapped reads; otherwise it returns the first SNP, in iteration order,
\* whose mapped-read count equals the maximum count over the collection.
C8_FirstWithMostReads ==
    best.called =>
        IF \A i \in 1..Len(snps) : ReadCount(i) = 0
        THEN best.idx = 0
        ELSE /\ best.idx \in 1..Len(snps)
             /\ \A i \in 1..Len(snps) : ReadCount(i) <= ReadCount(best.idx)
             /\ \A i \in 1..(best.idx - 1) : ReadCount(i) < ReadCount(best.idx)

\* a tie at the maximum: the first of the tied SNPs was returned
C8_Witness ==
    /\ best.called /\ best.idx \in 1..Len(snps)
    /\ \E j \in (best.idx + 1)..Len(snps) : ReadCount(j) = ReadCount(best.idx)
    /\ \E i \in 1..(best.idx - 1) : ReadCount(i) > 0

(***************************************************************************)
(* SpecEq: two SNPs are constructed independently and compared.            *)
(***************************************************************************)
EqAlleles == { <<"A">>, <<"C">>, <<"G">>, <<"A", "C">>, <<"C", "G">> }
EqPositions == { <<"3">>, <<"0", "3">>, <<"4">> }

InitEq ==
    /\ snps = <<>> /\ reads_data = <<>> /\ best = NoBest /\ cmp = NoCmp
    /\ LoadIdle

NextEq ==
    \/ \E chr \in {Chr1, Chr2}, pos \in EqPositions, ref \in EqAlleles, alt \in EqAlleles :
          /\ Len(snps) < 2
          /\ New(chr, Dot, pos, ref, alt, Het)
    \/ \E i \in 1..Len(snps), j \in 1..Len(snps) : Compare(i, j)

SpecEq == InitEq /\ [][NextEq]_vars

\* C9: x == y holds iff x and y have the same chromosome, the same position and the
\* same ref+alt concatenation; x != y is the negation of x == y; x == y implies
\* hash(x) == hash(y), and SNPs at the same (chromosome, position) hash alike.
C9_EqNeHash ==
    cmp.i # 0 =>
        LET x == snps[cmp.i]
            y == snps[cmp.j]
        IN  /\ cmp.eq <=> (x.chrom = y.chrom /\ x.pos = y.pos /\ x.ref \o x.alt = y.ref \o y.alt)
            /\ cmp.ne <=> ~cmp.eq
            /\ cmp.eq => cmp.hi = cmp.hj
            /\ (x.chrom = y.chrom /\ x.pos = y.pos) => cmp.hi = cmp.hj

\* two SNPs constructed independently, with different ref/alt splits of the same
\* concatenation, that are equal and hash alike
C9_Witness ==
    /\ cmp.i = 1 /\ cmp.j = 2 /\ cmp.eq /\ ~cmp.ne /\ cmp.hi = cmp.hj
    /\ snps[1].ref # snps[2].ref

(***************************************************************************)
(* SpecLoad: load_VCF on files of at most MaxLines lines.                  *)
(***************************************************************************)
RECURSIVE Join(_, _)
Join(fields, sep) ==
    IF fields = <<>> THEN <<>>
    ELSE IF Len(fields) = 1 THEN fields[1]
    ELSE fields[1] \o <<sep>> \o Join(Tail(fields), sep)

Rec(chrom, pos, ref, alt, gt) ==
    <<chrom, pos, Dot, ref, alt, <<"0">>, <<"P">>, <<"i">>, <<"G", "T">>, gt>>

TextLine(fields) == Join(fields, TAB) \o <<NL>>

ValidRec == Rec(Chr1, <<"7">>, <<"A">>, <<"G">>, Het)

LinePool ==
    { <<"#", "h", NL>>,                                                  \* meta line
      <<NL>>,                                                            \* blank line
      <<" ">> \o TextLine(ValidRec),                                     \* indented record
      TextLine(ValidRec),                                                \* het transition
      TextLine(Rec(Chr2, <<"1", "2">>, <<"A">>, <<"C">>, <<"0", "|", "1">>)), \* het transversion
      TextLine(Rec(Chr1, <<"7">>, <<"A">>, <<"G">>, Hom)),               \* homozygous
      TextLine(Rec(Chr1, <<"7">>, <<"A", "T">>, <<"G">>, Het)),          \* het indel
      TextLine(Rec(Chr1, <<"7">>, <<"A">>, <<"A">>, Het)),               \* het, ref = alt
      TextLine(Rec(Chr1, <<"x">>, <<"A">>, <<"G">>, Het)),               \* het, bad position
      TextLine(Rec(Chr1, <<"x">>, <<"A">>, <<"G">>, Hom)),               \* hom, bad position
      TextLine(SubSeq(ValidRec, 1, 9)),                                  \* 9 fields
      TextLine(Append(ValidRec, <<"z">>)),                               \* 11 fields
      Join(ValidRec, TAB) \o <<TAB, NL>>,                                \* trailing tab
      Join(SubSeq(ValidRec, 1, 9), TAB) \o <<TAB, NL>>,                  \* empty genotype
      TextLine(Rec(Chr1, <<"7">>, <<"A">>, <<"G">>, <<"1">>)),           \* one allele
      TextLine(Rec(Chr1, <<"7">>, <<"A">>, <<"G">>, <<"1", "|", "0", "|", "1">>)) }

InitLoad ==
    /\ snps = <<>> /\ reads_data = <<>> /\ best = NoBest /\ cmp = NoCmp
    /\ vcf \in UNION {[1..n -> LinePool] : n \in 0..MaxLines}
    /\ available \in BOOLEAN
    /\ pc = "start" /\ f = "unopened" /\ lineno = 0 /\ all_snps = <<>>
    /\ ret = NoRet /\ exc = NoExc

NextLoad == Open \/ Step \/ Return

SpecLoad == InitLoad /\ [][NextLoad]_vars

\* the fields of a line once its leading and trailing whitespace is removed
StrippedFields(line) == Split(Strip(line), TAB)

Finished == pc \in {"returned", "raised"}
IsChrLine(line) == StartsWith(line, ChrPrefix)
ChrLines == {k \in 1..Len(vcf) : IsChrLine(vcf[k])}

\* a "chr" line the loader can read: 10 fields, a two-allele genotype, and an
\* integer position
WellFormed(line) ==
    /\ Len(StrippedFields(line)) = 10
    /\ Len(Split(StrippedFields(line)[10], "|")) = 2
    /\ IntCoercible(StrippedFields(line)[2])

Heterozygous(line) ==
    LET ab == Split(StrippedFields(line)[10], "|") IN ab[1] # ab[2]

SNPOf(line) ==
    LET x == StrippedFields(line) IN SNP(x[1], x[3], x[2], x[4], x[5], x[10])

\* the SNPs of the retained lines among vcf[k..], in file order
RECURSIVE Retained(_)
Retained(k) ==
    IF k > Len(vcf) THEN <<>>
    ELSE IF IsChrLine(vcf[k]) /\ Heterozygous(vcf[k]) /\ SNPOf(vcf[k]).type # "indel"
         THEN <<SNPOf(vcf[k])>> \o Retained(k + 1)
         ELSE Retained(k + 1)

\* C1: when every "chr" line has 10 fields, a two-allele genotype and an integer
\* position, load_VCF returns, and returns one SNP per heterozygous non-indel
\* "chr" line, in file order, duplicates kept; other lines contribute nothing.
C1_ReturnsRetained ==
    (Finished /\ available /\ \A k \in ChrLines : WellFormed(vcf[k])) =>
        /\ pc = "returned" /\ ret.returned
        /\ ret.value = Retained(1)

\* two equal retained lines: both SNPs are in the result
C1_Witness ==
    /\ pc = "returned" /\ \A k \in ChrLines : WellFormed(vcf[k])
    /\ Len(ret.value) = 2 /\ ret.value[1] = ret.value[2]

\* C2 as stated: a "chr" line that does not split on tabs into exactly 10 fields
\* makes load_VCF end with the unpacking error and return nothing.
C2_RawSplitFails ==
    (Finished /\ available /\ \E k \in ChrLines : Len(Split(vcf[k], TAB)) # 10) =>
        /\ pc = "raised" /\ exc.type = "RuntimeError" /\ ~ret.returned

\* C2 amended: a "chr" line that, stripped of leading and trailing whitespace, does
\* not split on tabs into exactly 10 fields makes load_VCF end with the unpacking
\* error and return nothing, whatever preceded it.
C2_StrippedSplitFails ==
    (Finished /\ available /\ \E k \in ChrLines : Len(StrippedFields(vcf[k])) # 10) =>
        /\ pc = "raised" /\ exc.type = "RuntimeError" /\ ~ret.returned

\* a retained line precedes the malformed one: the partial list is not returned
C2_Witness ==
    /\ pc = "raised" /\ exc.type = "RuntimeError" /\ exc.context = "unpack line"
    /\ all_snps # <<>> /\ ~ret.returned

\* C3: a non-integer position on a heterozygous 10-field "chr" line propagates out
\* of load_VCF as a construction-time failure distinct from the unpacking error.
C3_InvalidPositionDistinct ==
    (pc = "raised" /\ exc.context = "int(pos)") => exc.type # "RuntimeError"

\* C4: once the handle was opened, it is closed by the time load_VCF finishes,
\* by return or by the unpacking error.
C4_HandleClosed ==
    Finished => f # "open"

====
